---- MODULE Spec2Model ----
(***************************************************************************)
(* Counting/tracking-state engine of backend/server.py: the upload handler *)
(* (upload_video), the connect handler (handle_connect) and the single     *)
(* processing loop (process_video), interleaved at the granularity of the  *)
(* code's critical sections on state_lock.  Every `with state_lock:` block *)
(* is one step (the reset block is two, so that the lock is visibly held   *)
(* across the capture re-open); every access to the shared globals made    *)
(* outside a lock is a step of its own.  The handlers and the loop are     *)
(* taken to run as preemptive threads, the scheduling state_lock is there  *)
(* for: a handler may run between any two steps of the loop.               *)
(***************************************************************************)
EXTENDS Integers, Sequences, FiniteSets, TLC

(* ------------------------------ bounds --------------------------------- *)
\* A track is reported in at most MaxHist consecutive frames.
MaxHist == 2
\* In the long-stream specification a track is followed for at most
\* MaxArrivals frames in a row (more than the window holds).
MaxArrivals == 32
\* Largest total the classifier is tried on.
MaxTotal == 25

\* Track identifiers the external tracker hands out.
TrackIds == {1, 2}
\* Centre-y values of a detection box.
YValues == {0, 1, 2}
\* Centre-x values of a detection box (never read by the counting logic).
XValues == {0}
\* COCO class indices the detector may report for each track: track 1 is a
\* Car (2) or an object of a class outside TARGET_CLASSES (4, airplane),
\* track 2 a Motorcycle (3).
TrackClasses == (1 :> {2, 4}) @@ (2 :> {3})

(* --------------------------- configuration ----------------------------- *)
TARGET_CLASSES ==
    (0 :> "Person") @@ (1 :> "Bicycle") @@ (2 :> "Car") @@
    (3 :> "Motorcycle") @@ (5 :> "Bus") @@ (7 :> "Truck")

ClassNames == {TARGET_CLASSES[c] : c \in DOMAIN TARGET_CLASSES}

InitialSource == "traffic_video.mp4"
UploadPaths == {"uploads/a.mp4", "uploads/bad.mp4"}
NoCapture == "none"

\* cv2.VideoCapture(path).isOpened(): the file exists and decodes.
Readable(src) == src \in {"traffic_video.mp4", "uploads/a.mp4"}

\* cap.get(cv2.CAP_PROP_FRAME_HEIGHT); 0 for a capture that did not open.
FrameHeight(src) ==
    CASE src = "traffic_video.mp4" -> 3
      [] src = "uploads/a.mp4"     -> 2
      [] OTHER                     -> 0

\* int(height // 1.5): floor(height / 1.5) = floor(2 * height / 3).
LineY(height) == (2 * height) \div 3

HistoryWindow == 30
LowMax == 10
MediumMax == 20

ZeroCounts == [name \in ClassNames |-> 0]
EmptyHistory == [t \in TrackIds |-> << >>]
NoPositions == [t \in TrackIds |-> NoCapture]
NoCrossings == [t \in TrackIds |-> 0]

\* The classes line 206-212 adds up, in the order the code reads them.
TotalOrder == <<"Car", "Bus", "Truck", "Person", "Bicycle">>

\* Lines 215-226 with the first comparison strict.
TrafficStatusStrict(total) ==
    IF total < LowMax
       THEN [level |-> "LOW", color |-> "green",
             message |-> "Smooth Traffic Flow"]
    ELSE IF total <= MediumMax
       THEN [level |-> "MEDIUM", color |-> "orange",
             message |-> "Moderate Traffic Volume"]
    ELSE [level |-> "HIGH", color |-> "red",
          message |-> "(siren) Heavy Traffic Volume"]

\* Lines 215-226: traffic_status, status_color and message.  The HIGH
\* message starts with a siren emoji in the source, written (siren) here.
TrafficStatus(total) ==
    IF total <= LowMax
       THEN [level |-> "LOW", color |-> "green",
             message |-> "Smooth Traffic Flow"]
    ELSE IF total > LowMax /\ total <= MediumMax
       THEN [level |-> "MEDIUM", color |-> "orange",
             message |-> "Moderate Traffic Volume"]
    ELSE [level |-> "HIGH", color |-> "red",
          message |-> "(siren) Heavy Traffic Volume"]

Classify(total) == TrafficStatus(total).level

NoRecord == [kind |-> "none"]

(* ------------------------------ state ---------------------------------- *)
VARIABLES
    current_video_source,  \* global, line 57
    video_needs_reset,     \* global, line 58
    track_history,         \* global, line 60: track id -> window (<<>> = no key)
    cumulative_counts,     \* global, line 61
    counted_ids,           \* global, line 62
    state_lock,            \* "free" or "loop" (held across the re-open)
    video_task_started,    \* global, line 67
    pc,                    \* position of process_video
    cap,                   \* source the loop's capture is bound to
    line_y,                \* local of process_video
    frame_src,             \* source the frame in hand was read from
    dets,                  \* detections of the frame still to be iterated
    active_ids,            \* local, line 145
    sum_i,                 \* next operand of the sum at lines 206-212
    total_cumulative,      \* local, line 206 (partial sum while pc = "total")
    emitted,               \* record handed to socketio.emit in this cycle
    crossings,             \* history: per id, times its crossing condition held
                           \* in this epoch (2 stands for twice or more)
    pendingReqs,           \* history: upload requests since the last applied reset
                           \* (2 stands for two or more)
    lastReq,               \* history: path named by the latest of them
    openedPending,         \* history: path the loop opened while they were pending
                           \* and before it applied a reset for them
    check_src,             \* history: current_video_source at this cycle's check
    applied,               \* history: pendingReqs collapsed into the reset applied
                           \* in this cycle (0: this cycle applied no reset)
    unlocked_read,         \* history: the global the loop's latest step read
                           \* outside every "with state_lock" block ("none":
                           \* the step read shared state under the lock only)
    pos_src,               \* history: per id, the source of the frame its
                           \* latest position was taken from
    starts,                \* history: calls of start_background_task
                           \* (2 stands for two or more)
    connects               \* history: connect events (2 stands for two or more)

vars == <<current_video_source, video_needs_reset, track_history,
          cumulative_counts, counted_ids, state_lock, video_task_started,
          pc, cap, line_y, frame_src, dets, active_ids, sum_i,
          total_cumulative, emitted, crossings, pendingReqs, lastReq,
          openedPending, check_src, applied, unlocked_read, pos_src,
          starts, connects>>

sharedVars == <<current_video_source, video_needs_reset, track_history,
                cumulative_counts, counted_ids>>
loopLocals == <<cap, line_y, frame_src, dets, active_ids, sum_i,
                total_cumulative>>
ghostVars == <<crossings, pendingReqs, lastReq, openedPending, check_src,
               applied>>

Init ==
    /\ current_video_source = InitialSource
    /\ video_needs_reset = FALSE
    /\ track_history = EmptyHistory
    /\ cumulative_counts = ZeroCounts
    /\ counted_ids = {}
    /\ state_lock = "free"
    /\ video_task_started = FALSE
    /\ pc = "idle"
    /\ cap = NoCapture
    /\ line_y = 0
    /\ frame_src = NoCapture
    /\ dets = << >>
    /\ active_ids = {}
    /\ sum_i = 0
    /\ total_cumulative = 0
    /\ emitted = NoRecord
    /\ crossings = NoCrossings
    /\ pendingReqs = 0
    /\ lastReq = NoCapture
    /\ openedPending = NoCapture
    /\ check_src = NoCapture
    /\ applied = 0
    /\ unlocked_read = "none"
    /\ pos_src = NoPositions
    /\ starts = 0
    /\ connects = 0

(* -------------------------- upload_video ------------------------------- *)
\* upload_video keeping the path of a request that is still pending.
UploadFirstWriterWins(filepath) ==
    /\ state_lock = "free"
    /\ current_video_source' =
           IF video_needs_reset THEN current_video_source ELSE filepath
    /\ video_needs_reset' = TRUE
    /\ cumulative_counts' = ZeroCounts
    /\ counted_ids' = {}
    /\ track_history' = EmptyHistory
    /\ crossings' = NoCrossings
    /\ pendingReqs' = IF pendingReqs = 0 THEN 1 ELSE 2
    /\ lastReq' = filepath
    /\ pos_src' = NoPositions
    /\ UNCHANGED <<state_lock, video_task_started, pc, loopLocals, emitted,
                   openedPending, check_src, applied,
                   unlocked_read, starts, connects>>

\* upload_video without line 97.
UploadKeepsCounts(filepath) ==
    /\ state_lock = "free"
    /\ current_video_source' = filepath
    /\ video_needs_reset' = TRUE
    /\ counted_ids' = {}
    /\ track_history' = EmptyHistory
    /\ crossings' = NoCrossings
    /\ pendingReqs' = IF pendingReqs = 0 THEN 1 ELSE 2
    /\ lastReq' = filepath
    /\ pos_src' = NoPositions
    /\ UNCHANGED <<cumulative_counts, state_lock, video_task_started, pc,
                   loopLocals, emitted, openedPending, check_src, applied,
                   unlocked_read, starts, connects>>

\* upload_video without line 98.
UploadKeepsIds(filepath) ==
    /\ state_lock = "free"
    /\ current_video_source' = filepath
    /\ video_needs_reset' = TRUE
    /\ cumulative_counts' = ZeroCounts
    /\ track_history' = EmptyHistory
    /\ crossings' = NoCrossings
    /\ pendingReqs' = IF pendingReqs = 0 THEN 1 ELSE 2
    /\ lastReq' = filepath
    /\ pos_src' = NoPositions
    /\ UNCHANGED <<counted_ids, state_lock, video_task_started, pc,
                   loopLocals, emitted, openedPending, check_src, applied,
                   unlocked_read, starts, connects>>

\* Lines 94-99, one critical section.
upload_video(filepath) ==
    /\ state_lock = "free"
    /\ current_video_source' = filepath
    /\ video_needs_reset' = TRUE
    /\ cumulative_counts' = ZeroCounts
    /\ counted_ids' = {}
    /\ track_history' = EmptyHistory
    /\ crossings' = NoCrossings
    /\ pendingReqs' = IF pendingReqs = 0 THEN 1 ELSE 2
    /\ lastReq' = filepath
    /\ pos_src' = NoPositions
    /\ UNCHANGED <<state_lock, video_task_started, pc, loopLocals, emitted,
                   openedPending, check_src, applied,
                   unlocked_read, starts, connects>>

Upload == \E filepath \in UploadPaths : upload_video(filepath)

(* -------------------------- handle_connect ----------------------------- *)
\* Lines 257-261 without the test of line 259: every connect starts a task.
handle_connect_unguarded ==
    /\ connects' = IF connects = 0 THEN 1 ELSE 2
    /\ video_task_started' = TRUE
    /\ pc' = "start"
    /\ starts' = IF starts = 0 THEN 1 ELSE 2
    /\ UNCHANGED <<sharedVars, state_lock, loopLocals, emitted, ghostVars,
                   unlocked_read, pos_src>>

\* Lines 257-261, under task_lock: the first connect starts process_video,
\* every later one finds video_task_started set and starts nothing.
handle_connect ==
    /\ connects' = IF connects = 0 THEN 1 ELSE 2
    /\ IF ~video_task_started
          THEN /\ video_task_started' = TRUE
               /\ pc' = "start"
               /\ starts' = IF starts = 0 THEN 1 ELSE 2
          ELSE UNCHANGED <<video_task_started, pc, starts>>
    /\ UNCHANGED <<sharedVars, state_lock, loopLocals, emitted, ghostVars,
                   unlocked_read, pos_src>>

(* -------------------------- process_video ------------------------------ *)
\* Lines 110-111: the first bind, made without the lock.
OpenInitialSource ==
    /\ pc = "start"
    /\ cap' = current_video_source
    /\ line_y' = LineY(FrameHeight(current_video_source))
    /\ pc' = "check"
    /\ openedPending' =
           IF pendingReqs > 0 THEN current_video_source ELSE NoCapture
    /\ unlocked_read' = "current_video_source"
    /\ UNCHANGED <<sharedVars, state_lock, video_task_started, frame_src, dets,
                   active_ids, sum_i, total_cumulative, emitted, crossings,
                   pendingReqs, lastReq, check_src, applied,
                   pos_src, starts, connects>>

\* Lines 114-117: sleep, take the lock, test the flag.  With the flag clear
\* the block is left at once; with it set the lock stays held for the re-open.
ResetCheck ==
    /\ pc = "check"
    /\ state_lock = "free"
    /\ check_src' = current_video_source
    /\ applied' = 0
    /\ emitted' = NoRecord
    /\ IF video_needs_reset
          THEN /\ state_lock' = "loop"
               /\ pc' = "reopen"
          ELSE /\ state_lock' = "free"
               /\ pc' = "read"
    /\ unlocked_read' = "none"
    /\ UNCHANGED <<sharedVars, video_task_started, loopLocals, crossings,
                   pendingReqs, lastReq, openedPending,
                   pos_src, starts, connects>>

\* The reset block without lines 118-120: the flag is cleared, the capture kept.
ApplyResetKeepsCapture ==
    /\ pc = "reopen"
    /\ state_lock = "loop"
    /\ video_needs_reset' = FALSE
    /\ state_lock' = "free"
    /\ applied' = pendingReqs
    /\ pendingReqs' = 0
    /\ lastReq' = NoCapture
    /\ openedPending' = NoCapture
    /\ pc' = "read"
    /\ unlocked_read' = "none"
    /\ UNCHANGED <<current_video_source, track_history, cumulative_counts,
                   counted_ids, video_task_started, cap, line_y, frame_src,
                   dets, active_ids, sum_i, total_cumulative, emitted,
                   crossings, check_src, pos_src, starts, connects>>

\* The reset block without line 121: the capture is rebound, the flag stays.
ApplyResetKeepsFlag ==
    /\ pc = "reopen"
    /\ state_lock = "loop"
    /\ cap' = current_video_source
    /\ line_y' = LineY(FrameHeight(current_video_source))
    /\ state_lock' = "free"
    /\ applied' = pendingReqs
    /\ pendingReqs' = 0
    /\ lastReq' = NoCapture
    /\ openedPending' = NoCapture
    /\ pc' = "read"
    /\ unlocked_read' = "none"
    /\ UNCHANGED <<current_video_source, video_needs_reset, track_history,
                   cumulative_counts, counted_ids, video_task_started,
                   frame_src, dets, active_ids, sum_i, total_cumulative,
                   emitted, crossings, check_src, pos_src, starts, connects>>

\* Lines 118-121, still inside the lock taken by ResetCheck.
ApplyReset ==
    /\ pc = "reopen"
    /\ state_lock = "loop"
    /\ cap' = current_video_source
    /\ line_y' = LineY(FrameHeight(current_video_source))
    /\ video_needs_reset' = FALSE
    /\ state_lock' = "free"
    /\ applied' = pendingReqs
    /\ pendingReqs' = 0
    /\ lastReq' = NoCapture
    /\ openedPending' = NoCapture
    /\ pc' = "read"
    /\ unlocked_read' = "none"
    /\ UNCHANGED <<current_video_source, track_history, cumulative_counts,
                   counted_ids, video_task_started, frame_src, dets,
                   active_ids, sum_i, total_cumulative, emitted, crossings,
                   check_src, pos_src, starts, connects>>

\* Line 123 with success: a frame of the bound source is in hand.
ReadFrame ==
    /\ pc = "read"
    /\ Readable(cap)
    /\ frame_src' = cap
    /\ pc' = "track"
    /\ unlocked_read' = "none"
    /\ UNCHANGED <<sharedVars, state_lock, video_task_started, cap, line_y,
                   dets, active_ids, sum_i, total_cumulative, emitted,
                   ghostVars, pos_src, starts, connects>>

\* Lines 124-126: the read failed (end of stream, or a capture that never
\* opened); seek to the start and go round again.
ReadFails ==
    /\ pc = "read"
    /\ pc' = "check"
    /\ unlocked_read' = "none"
    /\ UNCHANGED <<sharedVars, state_lock, video_task_started, loopLocals,
                   emitted, ghostVars, pos_src, starts, connects>>

\* One detection as zip(boxes, track_ids, clss) yields it (line 152).
Detection(id, cls, x, y) == [id |-> id, cls |-> cls, x |-> x, y |-> y]

RECURSIVE SortedSeq(_)
SortedSeq(S) ==
    IF S = {} THEN << >>
    ELSE LET m == CHOOSE a \in S : \A b \in S : a <= b
         IN  <<m>> \o SortedSeq(S \ {m})

\* Boxes the detector may report for one track; a class outside
\* TARGET_CLASSES is skipped whatever its box, so one box stands for it.
Boxes(id) ==
    {b \in [cls : TrackClasses[id], x : XValues, y : YValues] :
        b.cls \in DOMAIN TARGET_CLASSES \/ b.y = 0}

\* Results of model.track for one frame: every track id at most once (the
\* tracker assigns each track to one box), in ascending id order.
Frames ==
    UNION {
        LET ids == SortedSeq(present)
        IN  {[i \in 1..Len(ids) |->
                 Detection(ids[i], f[ids[i]].cls, f[ids[i]].x, f[ids[i]].y)] :
             f \in {g \in [present -> UNION {Boxes(t) : t \in TrackIds}] :
                      \A t \in present : g[t] \in Boxes(t)}}
        : present \in SUBSET TrackIds}

Recognised(d) == d.cls \in DOMAIN TARGET_CLASSES

\* Lines 129-151: detections of the frame in hand; active_ids starts empty.
TrackFrame ==
    /\ pc = "track"
    /\ \E f \in Frames :
          /\ \A i \in 1..Len(f) :
                Recognised(f[i]) => Len(track_history[f[i].id]) < MaxHist
          /\ dets' = f
          /\ pc' = IF f = << >> THEN "prune" ELSE "detect"
    /\ active_ids' = {}
    /\ unlocked_read' = "none"
    /\ UNCHANGED <<sharedVars, state_lock, video_task_started, cap, line_y,
                   frame_src, sum_i, total_cumulative, emitted, ghostVars,
                   pos_src, starts, connects>>

\* Lines 153-154: a class outside TARGET_CLASSES is skipped.
SkipDetection ==
    /\ pc = "detect"
    /\ dets # << >>
    /\ ~Recognised(Head(dets))
    /\ dets' = Tail(dets)
    /\ pc' = IF Tail(dets) = << >> THEN "prune" ELSE "detect"
    /\ unlocked_read' = "none"
    /\ UNCHANGED <<sharedVars, state_lock, video_task_started, cap, line_y,
                   frame_src, active_ids, sum_i, total_cumulative, emitted,
                   ghostVars, pos_src, starts, connects>>

\* Lines 164-166 with pop() for pop(0): the newest position is dropped.
AppendPositionDropsNewest(track, pos) ==
    LET appended == Append(track, pos)
    IN  IF Len(appended) > HistoryWindow
           THEN SubSeq(appended, 1, Len(appended) - 1)
           ELSE appended

\* Lines 164-166: append, and drop the oldest position past the window.
AppendPosition(track, pos) ==
    LET appended == Append(track, pos)
    IN  IF Len(appended) > HistoryWindow THEN Tail(appended) ELSE appended

\* Lines 168-173 with prev_y <= line_y in place of prev_y < line_y.
CrossingOccurredLoose(track, ly) ==
    /\ Len(track) > 1
    /\ track[Len(track) - 1][2] <= ly
    /\ ly <= track[Len(track)][2]

\* Lines 168-173: prev_y < line_y <= curr_y on the last two positions.
CrossingOccurred(track, ly) ==
    /\ Len(track) > 1
    /\ track[Len(track) - 1][2] < ly
    /\ ly <= track[Len(track)][2]

\* Lines 175-176 without the test of line 174.
RegisterCrossingUnguarded(counts, ids, track_id, class_name) ==
    [counts |-> [counts EXCEPT ![class_name] = @ + 1],
     ids    |-> ids \cup {track_id}]

\* Lines 174-176 with the increment doubled.
RegisterCrossingTwice(counts, ids, track_id, class_name) ==
    IF track_id \notin ids
       THEN [counts |-> [counts EXCEPT ![class_name] = @ + 2],
             ids    |-> ids \cup {track_id}]
       ELSE [counts |-> counts, ids |-> ids]

\* Lines 174-176: count a crossing unless the id was counted already.
RegisterCrossing(counts, ids, track_id, class_name) ==
    IF track_id \notin ids
       THEN [counts |-> [counts EXCEPT ![class_name] = @ + 1],
             ids    |-> ids \cup {track_id}]
       ELSE [counts |-> counts, ids |-> ids]

\* Lines 156-176 for one recognised detection: one critical section.
UpdateTrack ==
    /\ pc = "detect"
    /\ dets # << >>
    /\ Recognised(Head(dets))
    /\ state_lock = "free"
    /\ LET d          == Head(dets)
           class_name == TARGET_CLASSES[d.cls]
           track      == AppendPosition(track_history[d.id], <<d.x, d.y>>)
           fires      == CrossingOccurred(track, line_y)
           reg        == IF fires
                            THEN RegisterCrossing(cumulative_counts, counted_ids,
                                                  d.id, class_name)
                            ELSE [counts |-> cumulative_counts,
                                  ids    |-> counted_ids]
       IN  /\ active_ids' = active_ids \cup {d.id}
           /\ track_history' = [track_history EXCEPT ![d.id] = track]
           /\ cumulative_counts' = reg.counts
           /\ counted_ids' = reg.ids
           /\ pos_src' = [pos_src EXCEPT ![d.id] = frame_src]
           /\ crossings' = IF fires
                             THEN [crossings EXCEPT ![d.id] = IF @ = 0 THEN 1 ELSE 2]
                             ELSE crossings
    /\ dets' = Tail(dets)
    /\ pc' = IF Tail(dets) = << >> THEN "prune" ELSE "detect"
    /\ unlocked_read' = "counted_ids"
    /\ UNCHANGED <<current_video_source, video_needs_reset, state_lock,
                   video_task_started, cap, line_y, frame_src, sum_i,
                   total_cumulative, emitted, pendingReqs, lastReq,
                   openedPending, check_src, applied, starts, connects>>

\* Lines 203-205 with the test of line 204 dropped: every key is deleted.
PruneEverything(history, active) ==
    [t \in TrackIds |-> << >>]

\* Lines 203-205: delete every key that is not in active_ids.
Prune(history, active) ==
    [t \in TrackIds |-> IF t \in active THEN history[t] ELSE << >>]

\* Lines 202-205, one critical section.
PruneTracks ==
    /\ pc = "prune"
    /\ state_lock = "free"
    /\ track_history' = Prune(track_history, active_ids)
    /\ pc' = "total"
    /\ sum_i' = 1
    /\ total_cumulative' = 0
    /\ unlocked_read' = "none"
    /\ pos_src' = [t \in TrackIds |->
                     IF track_history'[t] = << >> THEN NoCapture ELSE pos_src[t]]
    /\ UNCHANGED <<current_video_source, video_needs_reset, cumulative_counts,
                   counted_ids, state_lock, video_task_started, cap, line_y,
                   frame_src, dets, active_ids, emitted, ghostVars,
                   starts, connects>>

\* Lines 206-212: five reads of the global cumulative_counts, none of them
\* under the lock; each is a step, so an upload can fall between two reads.
ReadCount ==
    /\ pc = "total"
    /\ total_cumulative' = total_cumulative + cumulative_counts[TotalOrder[sum_i]]
    /\ IF sum_i < Len(TotalOrder)
          THEN /\ sum_i' = sum_i + 1
               /\ pc' = "total"
          ELSE /\ sum_i' = 0
               /\ pc' = "emit"
    /\ unlocked_read' = "cumulative_counts"
    /\ UNCHANGED <<sharedVars, state_lock, video_task_started, cap, line_y,
                   frame_src, dets, active_ids, emitted, ghostVars,
                   pos_src, starts, connects>>

\* Lines 215-245: classify the total and emit it with the counts as the
\* global holds them at that moment (read without the lock).  The locals of
\* the finished cycle are dead from here on and are put back to their
\* initial values.
EmitRecord ==
    /\ pc = "emit"
    /\ emitted' = [kind    |-> "video_data",
                   counts  |-> cumulative_counts,
                   level   |-> Classify(total_cumulative),
                   color   |-> TrafficStatus(total_cumulative).color,
                   message |-> TrafficStatus(total_cumulative).message,
                   density |-> total_cumulative]
    /\ pc' = "check"
    /\ frame_src' = NoCapture
    /\ dets' = << >>
    /\ active_ids' = {}
    /\ total_cumulative' = 0
    /\ unlocked_read' = "cumulative_counts"
    /\ UNCHANGED <<sharedVars, state_lock, video_task_started, cap, line_y,
                   sum_i, ghostVars, pos_src, starts, connects>>

(* --------------------------- specification ----------------------------- *)
Next ==
    \/ Upload
    \/ handle_connect
    \/ OpenInitialSource
    \/ ResetCheck
    \/ ApplyReset
    \/ ReadFrame
    \/ ReadFails
    \/ TrackFrame
    \/ SkipDetection
    \/ UpdateTrack
    \/ PruneTracks
    \/ ReadCount
    \/ EmitRecord

Spec == Init /\ [][Next]_vars

(* ------------------ the classifier on every total ---------------------- *)
\* The loop stands before the sum of lines 206-212 at the end of a cycle in
\* which n cars have been counted so far (tracks 1..n, all pruned since).
InitClassifier ==
    \E n \in 0..MaxTotal :
        /\ current_video_source = InitialSource
        /\ video_needs_reset = FALSE
        /\ track_history = EmptyHistory
        /\ cumulative_counts = [ZeroCounts EXCEPT !["Car"] = n]
        /\ counted_ids = 1..n
        /\ state_lock = "free"
        /\ video_task_started = TRUE
        /\ pc = "total"
        /\ cap = InitialSource
        /\ line_y = LineY(FrameHeight(InitialSource))
        /\ frame_src = InitialSource
        /\ dets = << >>
        /\ active_ids = {}
        /\ sum_i = 1
        /\ total_cumulative = 0
        /\ emitted = NoRecord
        /\ crossings = NoCrossings
        /\ pendingReqs = 0
        /\ lastReq = NoCapture
        /\ openedPending = NoCapture
        /\ check_src = InitialSource
        /\ applied = 0
        /\ unlocked_read = "none"
        /\ pos_src = NoPositions
        /\ starts = 1
        /\ connects = 1

NextClassifier ==
    \/ ReadCount
    \/ EmitRecord

SpecClassifier == InitClassifier /\ [][NextClassifier]_vars

(* ------------------- a long stream with one track ---------------------- *)
\* Results of model.track in a stream that shows track 1, a Car, frame after
\* frame: the track is either absent or reported with one box, whose centre-x
\* is the number of the frame within the track's run (so positions can be
\* told apart) and whose centre-y follows from it.
LongStreamFrames ==
    LET h    == track_history[1]
        n    == IF h = << >> THEN 1 ELSE h[Len(h)][1] + 1
    IN  {<< >>} \cup
        (IF n <= MaxArrivals
            THEN {<<Detection(1, 2, n, n % 3)>>}
            ELSE {})

\* Lines 129-151 on the long stream.
TrackLongStream ==
    /\ pc = "track"
    /\ \E f \in LongStreamFrames :
          /\ dets' = f
          /\ pc' = IF f = << >> THEN "prune" ELSE "detect"
    /\ active_ids' = {}
    /\ unlocked_read' = "none"
    /\ UNCHANGED <<sharedVars, state_lock, video_task_started, cap, line_y,
                   frame_src, sum_i, total_cumulative, emitted, ghostVars,
                   pos_src, starts, connects>>

NextLongStream ==
    \/ Upload
    \/ handle_connect
    \/ OpenInitialSource
    \/ ResetCheck
    \/ ApplyReset
    \/ ReadFrame
    \/ ReadFails
    \/ TrackLongStream
    \/ UpdateTrack
    \/ PruneTracks
    \/ ReadCount
    \/ EmitRecord

SpecLongStream == Init /\ [][NextLongStream]_vars

\* A step of process_video on the long stream.
LoopStep ==
    \/ OpenInitialSource
    \/ ResetCheck
    \/ ApplyReset
    \/ ReadFrame
    \/ ReadFails
    \/ TrackLongStream
    \/ UpdateTrack
    \/ PruneTracks
    \/ ReadCount
    \/ EmitRecord

\* The background task, once started, keeps being scheduled, and a lock it
\* waits for is granted once it is free: the loop does not stop while it
\* has a step to take.  Nothing is assumed of clients and uploads.
SpecFair == Init /\ [][NextLongStream]_vars /\ WF_vars(LoopStep)

(* ---------------------------- step shapes ------------------------------ *)
\* The step the loop takes for the recognised detection at the head of dets.
IsUpdateTrackStep ==
    /\ pc = "detect"
    /\ dets # << >>
    /\ Recognised(Head(dets))
    /\ dets' = Tail(dets)

\* The step that completes the loop's reset block.
IsApplyResetStep == pc = "reopen" /\ pc' = "read"

\* The per-frame prune step.
IsPruneStep == pc = "prune" /\ pc' = "total"

\* A step of the upload handler.
IsUploadStep == pendingReqs' > pendingReqs \/ (pendingReqs = 2 /\ lastReq' # lastReq)

\* The loop holds a frame and is evaluating it.
InCycle == pc \in {"track", "detect", "prune", "total", "emit"}

SumOver(counts, names) ==
    LET RECURSIVE Sum(_)
        Sum(i) == IF i = 0 THEN 0 ELSE counts[names[i]] + Sum(i - 1)
    IN  Sum(Len(names))

\* The six recognised classes, in the order of TARGET_CLASSES.
RecognisedClasses ==
    <<"Person", "Bicycle", "Car", "Motorcycle", "Bus", "Truck">>

(* ------------------------------- C1 ------------------------------------ *)
\* C1: within one epoch (no upload in between) the step that evaluates a
\* detection whose track meets prev_y < line_y <= curr_y for the first time
\* raises the count of the detection's class by exactly 1 and leaves every
\* other count alone, and a step for a track that met the condition before
\* in the epoch changes no count, whether or not the track was pruned from
\* the history in between.
C1_ExactlyOnce ==
    [][IsUpdateTrackStep =>
        LET d    == Head(dets)
            name == TARGET_CLASSES[d.cls]
            h    == track_history[d.id]
            cond == Len(h) >= 1 /\ h[Len(h)][2] < line_y /\ line_y <= d.y
        IN  /\ (cond /\ crossings[d.id] = 0) =>
                   cumulative_counts' =
                       [cumulative_counts EXCEPT ![name] = @ + 1]
            /\ crossings[d.id] > 0 => cumulative_counts' = cumulative_counts
      ]_vars

\* A track that was counted, pruned, seen again and has met the crossing
\* condition a second time in the same epoch, with a single count for it.
C1_Witness ==
    \E t \in TrackIds :
        /\ crossings[t] = 2
        /\ t \in counted_ids
        /\ CrossingOccurred(track_history[t], line_y)
        /\ SumOver(cumulative_counts, <<"Car", "Motorcycle">>) = 1

(* ------------------------------- C2 ------------------------------------ *)
\* C2: with the state lock free, the counters, countedIds and history (which
\* belong to the epoch of current_video_source, the upload handler setting all
\* of them together) are never those of a newer source than the one the
\* capture is bound to and line_y was computed for.
C2_ResetAtomic ==
    (state_lock = "free" /\ cap # NoCapture) =>
        /\ cap = current_video_source
        /\ line_y = LineY(FrameHeight(current_video_source))

C5_StateAfterReset ==
    [][IsApplyResetStep =>
        /\ cumulative_counts' = ZeroCounts
        /\ counted_ids' = {}
        /\ ~video_needs_reset'
        /\ cap' = current_video_source'
        /\ line_y' = LineY(FrameHeight(cap'))
      ]_vars

\* A reset that moved the loop from the initial source to uploads/a.mp4, whose
\* height gives another line, has just completed.
C5_Witness ==
    /\ pc = "read"
    /\ applied > 0
    /\ cap = "uploads/a.mp4"
    /\ line_y = 1
    /\ ~video_needs_reset

(* ------------------------------- C6 ------------------------------------ *)
\* C6 as stated: while two or more requests are pending, the loop has opened
\* no path for them but that of the latest (a superseded path A is never
\* opened).
C6_SupersededNeverOpened ==
    (pendingReqs >= 2 /\ openedPending # NoCapture) => openedPending = lastReq

\* C6, amended: requests that pile up before the loop's reset check collapse
\* into one reset: the reset block binds the path of the latest request and
\* consumes all of them, and every step that binds the capture while requests
\* are pending binds the path of the request that is the latest at that
\* moment (so a superseded path is opened only by the loop's first bind, when
\* that falls between two requests).
C6_SingleSlotReset ==
    [][/\ (IsApplyResetStep /\ pendingReqs >= 2) =>
            /\ cap' = lastReq
            /\ pendingReqs' = 0
            /\ ~video_needs_reset'
       /\ (pendingReqs >= 1 /\ cap' # cap) => cap' = lastReq
      ]_vars

\* One applied reset has consumed two or more requests; the loop is bound to
\* the path of the latest one and no reset is pending.
C6_Witness ==
    /\ pc = "read"
    /\ applied = 2
    /\ cap = current_video_source
    /\ ~video_needs_reset
    /\ pendingReqs = 0

(* ------------------------------- C7 ------------------------------------ *)
\* C7: the frame a cycle evaluates was read from the source that
\* current_video_source named at that cycle's reset check, and line_y is the
\* line of that source.
C7_ResetBeforeFrame ==
    InCycle =>
        /\ frame_src = check_src
        /\ line_y = LineY(FrameHeight(check_src))

\* A cycle whose reset check applied a reset is evaluating detections of a
\* frame of the new source.
C7_Witness ==
    /\ pc = "detect"
    /\ dets # << >>
    /\ applied > 0
    /\ frame_src = "uploads/a.mp4"

(* ------------------------------- C8 ------------------------------------ *)
\* C8: when the reset block finds that the requested source cannot be opened,
\* the previously bound source stays bound.
C8_KeepsLastGoodSource ==
    [][(IsApplyResetStep /\ ~Readable(current_video_source)) => cap' = cap]_vars

(* ------------------------------- C9 ------------------------------------ *)
\* C9: every step leaves each class count unchanged or raises it by 1, except
\* a step of the upload handler, which sets every count to 0.
C9_MonotonicCounts ==
    [][\/ \A name \in ClassNames :
              \/ cumulative_counts'[name] = cumulative_counts[name]
              \/ cumulative_counts'[name] = cumulative_counts[name] + 1
       \/ (IsUploadStep /\ cumulative_counts' = ZeroCounts)
      ]_vars

\* An upload has lowered the counts: the record emitted just before it
\* carries a count, and the counts are all 0 now.
C9_Witness ==
    /\ emitted.kind = "video_data"
    /\ emitted.counts # ZeroCounts
    /\ cumulative_counts = ZeroCounts
    /\ video_needs_reset

(* ------------------------------- C10 ----------------------------------- *)
\* C10: the prune step leaves no id outside active_ids in the history, keeps
\* the window of every id in active_ids as it was, and changes neither
\* counted_ids nor the counts.
C10_Prune ==
    [][IsPruneStep =>
        /\ \A t \in TrackIds :
              /\ t \notin active_ids => track_history'[t] = << >>
              /\ t \in active_ids => track_history'[t] = track_history[t]
        /\ counted_ids' = counted_ids
        /\ cumulative_counts' = cumulative_counts
      ]_vars

\* Just after a prune: an active track keeps a window of two positions, and a
\* counted track that is not active has no history left.
C10_Witness ==
    /\ pc = "total"
    /\ sum_i = 1
    /\ \E t \in active_ids : Len(track_history[t]) = 2
    /\ \E u \in counted_ids : u \notin active_ids /\ track_history[u] = << >>

(* ------------------------------- C11 ----------------------------------- *)
\* C11: with the state lock free every track's history holds at most 30
\* positions, and the step that records a position leaves the track with the
\* 30 most recent positions in arrival order: the old window followed by the
\* new position, less its oldest entries beyond 30.
C11_BoundedWindow ==
    /\ [](state_lock = "free" =>
             \A t \in TrackIds : Len(track_history[t]) <= 30)
    /\ [][IsUpdateTrackStep =>
            LET d == Head(dets)
                a == Append(track_history[d.id], <<d.x, d.y>>)
            IN  track_history'[d.id] =
                    IF Len(a) <= 30 THEN a
                    ELSE SubSeq(a, Len(a) - 29, Len(a))
         ]_vars

\* A window that has overflowed twice: it holds 30 positions, the oldest of
\* them the third that arrived and the newest the thirty-second.
C11_Witness ==
    /\ Len(track_history[1]) = 30
    /\ track_history[1][1][1] = 3
    /\ track_history[1][30][1] = 32

(* ------------------------------- C12 ----------------------------------- *)
\* C12: the emitted status is LOW/green/"Smooth Traffic Flow" exactly for a
\* total of at most 10, MEDIUM/orange/"Moderate Traffic Volume" exactly for
\* 11 to 20, and HIGH/red exactly from 21 on.
C12_ClassifierBoundaries ==
    emitted.kind = "video_data" =>
        LET t == emitted.density
        IN  /\ t >= 0
            /\ (t <= 10) <=>
                   /\ emitted.level = "LOW"
                   /\ emitted.color = "green"
                   /\ emitted.message = "Smooth Traffic Flow"
            /\ (11 <= t /\ t <= 20) <=>
                   /\ emitted.level = "MEDIUM"
                   /\ emitted.color = "orange"
                   /\ emitted.message = "Moderate Traffic Volume"
            /\ (t >= 21) <=> (emitted.level = "HIGH" /\ emitted.color = "red")
            /\ emitted.level \in {"LOW", "MEDIUM", "HIGH"}

\* The status at the last boundary has been emitted: 21 counted crossings.
C12_Witness ==
    /\ emitted.kind = "video_data"
    /\ emitted.density = 21
    /\ emitted.counts["Car"] = 21
    /\ emitted.level = "HIGH"

(* ------------------------------- C13 ----------------------------------- *)
\* C13: the total the status is derived from is the sum of the counts of
\* all six recognised classes.  Stated for runs without any upload, where
\* no count changes between the sum and the emit: the emitted density is
\* the sum of the emitted counts over the six classes.
C13_TotalOverSixClasses ==
    (emitted.kind = "video_data" /\ pendingReqs = 0) =>
        emitted.density = SumOver(emitted.counts, RecognisedClasses)

(* ------------------------------- C14 ----------------------------------- *)
\* C14: a count is raised only by the loop's step for a recognised
\* detection whose track already held a position, with that previous
\* position strictly above the line and the new one on or below it; the
\* track then holds at least two positions.  Upward and lateral motion,
\* motion on one side of the line, a first sample and an unrecognised class
\* raise no count.
C14_DownwardCrossingOnly ==
    [][(\E c \in ClassNames : cumulative_counts'[c] > cumulative_counts[c]) =>
          /\ IsUpdateTrackStep
          /\ LET d == Head(dets)
                 h == track_history[d.id]
             IN  /\ Len(h) >= 1
                 /\ h[Len(h)][2] < line_y
                 /\ line_y <= d.y
                 /\ Len(track_history'[d.id]) >= 2
                 /\ cumulative_counts'[TARGET_CLASSES[d.cls]]
                        = cumulative_counts[TARGET_CLASSES[d.cls]] + 1]_vars

\* Track 2 has crossed downward and is counted; track 1 has moved upward
\* over the line and is not.
C14_Witness ==
    /\ line_y = 1
    /\ track_history[1] = <<<<0, 2>>, <<0, 0>>>>
    /\ track_history[2] = <<<<0, 0>>, <<0, 2>>>>
    /\ crossings[1] = 0
    /\ crossings[2] = 1
    /\ counted_ids = {2}
    /\ cumulative_counts = [ZeroCounts EXCEPT !["Motorcycle"] = 1]

(* ------------------------------- C15 ----------------------------------- *)
\* C15: the loop reads cumulative_counts and counted_ids only while it
\* holds state_lock: no step of the loop reads either of them outside a
\* "with state_lock" block.
C15_LockDiscipline ==
    unlocked_read \notin {"cumulative_counts", "counted_ids"}

(* ------------------------------- C16 ----------------------------------- *)
\* Positions of the loop whose next step is a blocking call: the first open
\* (line 110), release and open of the reset block (lines 118-119), read and
\* seek (lines 123-125) and the detector (line 129).
AtBlockingCall == pc \in {"start", "reopen", "read", "track"}

\* C16: state_lock is free whenever the loop is inside a blocking call to
\* the frame source or to the detector.
C16_LockFreeAcrossBlockingCalls ==
    AtBlockingCall => state_lock = "free"

(* ------------------------------- C17 ----------------------------------- *)
\* C17: with the loop started and fairly scheduled, a set video_needs_reset
\* is cleared again, whatever uploads, read failures and unopenable sources
\* occur.
C17_ResetLiveness ==
    (video_needs_reset /\ video_task_started) ~> ~video_needs_reset

\* A reset has been applied for a source that cannot be opened, and the read
\* on it has failed: the loop is back at its check with the flag clear.
C17_Witness ==
    /\ cap = "uploads/bad.mp4"
    /\ ~Readable(cap)
    /\ applied >= 1
    /\ pc = "check"
    /\ ~video_needs_reset

(* ------------------------------- C18 ----------------------------------- *)
\* C18: whatever the number of connects, start_background_task is called at
\* most once, by the first connect: before any connect nothing runs, from
\* the first connect on exactly one loop has been started, and a later
\* connect starts nothing.
C18_StartedOnce ==
    /\ starts <= 1
    /\ connects = 0 => (starts = 0 /\ ~video_task_started /\ pc = "idle")
    /\ connects >= 1 => (starts = 1 /\ video_task_started /\ pc # "idle")

\* Two clients have connected while one loop runs and evaluates a frame.
C18_Witness ==
    /\ connects = 2
    /\ starts = 1
    /\ pc = "detect"

(* ------------------------------- C19 ----------------------------------- *)
\* C19: whenever state_lock is free, the counts of the six recognised
\* classes add up to the number of ids in counted_ids.
C19_CountsMatchIds ==
    state_lock = "free" =>
        SumOver(cumulative_counts, RecognisedClasses) = Cardinality(counted_ids)

\* Both tracks are counted, one per class, after an upload had emptied both
\* the counts and the ids.
C19_Witness ==
    /\ counted_ids = {1, 2}
    /\ cumulative_counts["Motorcycle"] = 1
    /\ SumOver(cumulative_counts, RecognisedClasses) = 2
    /\ current_video_source = "uploads/a.mp4"
    /\ state_lock = "free"

====
